---- MODULE Spec2Model ----
(***************************************************************************)
(* PI-Data-Extract: the two scripts PI_Data.py and PI-Data-Extraction.py.  *)
(* Each defines PI_Call (a csv tag list) and PI_Call_Tag (one tag): query  *)
(* an OSI PI historian through PIconnect, put the answers in a pandas      *)
(* DataFrame and, in PI_Data.py, post-process it.  The historian and       *)
(* pandas are modelled by what the calls the scripts make do.              *)
(***************************************************************************)
EXTENDS Integers, Sequences, FiniteSets

\* ------------------------------------------------------------- bounds
\* Timestamps are the instants 1..MaxT (one query interval apart).
MaxT == 3
\* The historian search returns at most MaxPoints points.
MaxPoints == 2

\* ------------------------------------------------------ cells and values
Num(n) == [kind |-> "num", num |-> n, str |-> ""]
Str(s) == [kind |-> "str", num |-> 0, str |-> s]
\* np.nan, the missing-value marker
NaN == [kind |-> "nan", num |-> 0, str |-> ""]

Sentinel == "[-11059] No Good Data For Calculation"

\* The raw values a historian answer may hold: the state tokens, the
\* bad-calculation sentinel, a token in another case, a numeric string, a
\* number.
RawValueSeq ==
    << Str("RUNNING"), Str("STOPPED"), Str("FAIL"), Str(Sentinel),
       Str("running"), Str("7"), Num(5) >>

\* The strings pd.to_numeric parses, with their values.
NumericStrings == {"7"}
ParseNumber(s) == CASE s = "7" -> 7

\* ---------------------------------------------------------------- tags
Tags == {"T1", "T2", "T3"}
TagIndex(tag) == CASE tag = "T1" -> 1 [] tag = "T2" -> 2 [] tag = "T3" -> 3

\* The csv tag lists (PI tag, variable name): T3 is in no list; the second
\* list gives both tags the same variable name.
TagMaps ==
    { [query |-> <<"T1", "T2">>, var_names |-> <<"V1", "V2">>],
      [query |-> <<"T1", "T2">>, var_names |-> <<"V1", "V1">>] }

Files == {"PI_Data", "PI_Data_Extraction"}
DataTypes == {"summary", "sampled", "calculated"}
SupportedSummaryTypes ==
    {"average", "maximum", "minimum", "total", "range", "count", "std_dev"}
\* The summary types the docstring lists.
DocumentedSummaryTypes == SupportedSummaryTypes \cup {"mean"}
\* The (dataType, summaryType) pairs a call is made with: every documented
\* summary type in summary mode; a supported and an unsupported one in the
\* modes that do not read it.
Modes ==
    ({"summary"} \X DocumentedSummaryTypes)
    \cup ((DataTypes \ {"summary"}) \X {"average", "mean"})

\* The column PIconnect's summaries() names after the SummaryType member.
SummaryColumn(summaryType) ==
    CASE summaryType = "average" -> "AVERAGE"
      [] summaryType = "maximum" -> "MAXIMUM"
      [] summaryType = "minimum" -> "MINIMUM"
      [] summaryType = "total" -> "TOTAL"
      [] summaryType = "range" -> "RANGE"
      [] summaryType = "count" -> "COUNT"
      [] summaryType = "std_dev" -> "STD_DEV"

\* ------------------------------------------------------------- frames
\* A pandas object: kind "DataFrame", "Series" (cols holds its name) or
\* "None"; rows in index order, each with its index label idx, its cells
\* and (bookkeeping) the instant utc it was recorded at; src (bookkeeping)
\* is the tag of the point each column was fetched from.
NoFrame == [kind |-> "None", cols |-> <<>>, src |-> <<>>, naive |-> FALSE,
            rows |-> <<>>]

Range(s) == {s[k] : k \in DOMAIN s}

SortedSeq(S) ==
    [k \in 1..Cardinality(S) |->
        CHOOSE x \in S : Cardinality({y \in S : y < x}) = k - 1]

\* The rows whose index label is not label, in order.
RowsWithout(rows, label) ==
    LET F[k \in 0..Len(rows)] ==
            IF k = 0 THEN <<>>
            ELSE IF rows[k].idx # label THEN Append(F[k - 1], rows[k])
                 ELSE F[k - 1]
    IN F[Len(rows)]

\* frame with the cells of row k replaced by cells[k].
SetCells(frame, cells) ==
    [frame EXCEPT !.rows =
        [k \in DOMAIN frame.rows |->
            [frame.rows[k] EXCEPT !.cells = cells[k]]]]

\* Canada/Pacific wall clock: at the autumn change the clock is set back by
\* one interval, so the instants FallBackAt - 1 and FallBackAt read alike.
FallBackAt == 3
Local(t) == IF t >= FallBackAt THEN t - 1 ELSE t

\* data.tz_convert('Canada/Pacific').tz_localize(None); tz_convert raises
\* TypeError on an index that is already timezone-naive.
TzNaive(frame) == frame.naive
TzConvertLocalize(frame) ==
    [frame EXCEPT !.naive = TRUE,
        !.rows = [k \in DOMAIN frame.rows |->
                    [frame.rows[k] EXCEPT !.idx = Local(frame.rows[k].utc)]]]

\* pd.DataFrame(series): a one-column table named after the series.
ToDataFrame(frame) == [frame EXCEPT !.kind = "DataFrame"]

\* data.rename(columns={old: new}): the columns named old, if any.
RenameColumns(frame, old, new) ==
    [frame EXCEPT !.cols =
        [j \in DOMAIN frame.cols |->
            IF frame.cols[j] = old THEN new ELSE frame.cols[j]]]

\* data.columns = names (the caller checks the length).
SetColumns(frame, names) == [frame EXCEPT !.cols = names]

\* A substitution table that codes FAIL as 1.
StateCode_FailAsOne(cell) ==
    IF cell = Str("RUNNING") THEN Num(1)
    ELSE IF cell = Str("STOPPED") THEN Num(0)
    ELSE IF cell = Str("FAIL") THEN Num(1)
    ELSE cell

\* data.replace({'RUNNING': 1, 'STOPPED': 0, 'FAIL': 0})
StateCode(cell) ==
    IF cell = Str("RUNNING") THEN Num(1)
    ELSE IF cell = Str("STOPPED") THEN Num(0)
    ELSE IF cell = Str("FAIL") THEN Num(0)
    ELSE cell
ReplaceStates(frame) ==
    SetCells(frame,
        [k \in DOMAIN frame.rows |->
            [j \in DOMAIN frame.rows[k].cells |->
                StateCode(frame.rows[k].cells[j])]])

\* pd.to_numeric with errors='ignore': what cannot be parsed is left as is.
ToNumericCell_Ignore(cell) ==
    IF cell.kind = "str" /\ cell.str \in NumericStrings
    THEN Num(ParseNumber(cell.str))
    ELSE cell

\* pd.to_numeric(..., errors='coerce') on one value
ToNumericCell(cell) ==
    IF cell.kind = "str"
    THEN IF cell.str \in NumericStrings THEN Num(ParseNumber(cell.str))
         ELSE NaN
    ELSE cell
ToNumeric(frame) ==
    SetCells(frame,
        [k \in DOMAIN frame.rows |->
            [j \in DOMAIN frame.rows[k].cells |->
                ToNumericCell(frame.rows[k].cells[j])]])

\* data.replace('[-11059] No Good Data For Calculation', np.nan)
ScrubCell(cell) == IF cell = Str(Sentinel) THEN NaN ELSE cell
ReplaceSentinel(frame) ==
    SetCells(frame,
        [k \in DOMAIN frame.rows |->
            [j \in DOMAIN frame.rows[k].cells |->
                ScrubCell(frame.rows[k].cells[j])]])

\* data.drop(data.tail(1).index): drops every row carrying the index label
\* of the last row.
DropTail(frame) ==
    IF frame.rows = <<>> THEN frame
    ELSE [frame EXCEPT !.rows =
            RowsWithout(frame.rows, frame.rows[Len(frame.rows)].idx)]

\* pd.concat(data, axis=1) on a non-empty list: outer join on the index,
\* the columns side by side, NaN where a frame has no row at a label.
Instants(frame) == {frame.rows[k].utc : k \in DOMAIN frame.rows}
RowAt(frame, t) ==
    frame.rows[CHOOSE k \in DOMAIN frame.rows : frame.rows[k].utc = t]
NaNs(n) == [j \in 1..n |-> NaN]
CellsAt(frame, t) ==
    IF t \in Instants(frame) THEN RowAt(frame, t).cells
    ELSE NaNs(Len(frame.cols))
\* join='inner': the labels every frame has.
JoinIndex_Inner(frames) ==
    {t \in UNION {Instants(frames[k]) : k \in DOMAIN frames} :
        \A k \in DOMAIN frames : t \in Instants(frames[k])}

\* join='outer' (the default): the labels any frame has.
JoinIndex(frames) == UNION {Instants(frames[k]) : k \in DOMAIN frames}
Concat(frames) ==
    LET Flat[k \in 0..Len(frames)] ==
            IF k = 0 THEN [cols |-> <<>>, src |-> <<>>]
            ELSE [cols |-> Flat[k - 1].cols \o frames[k].cols,
                  src |-> Flat[k - 1].src \o frames[k].src]
        Cells[t \in JoinIndex(frames)] ==
            LET C[k \in 0..Len(frames)] ==
                    IF k = 0 THEN <<>>
                    ELSE C[k - 1] \o CellsAt(frames[k], t)
            IN C[Len(frames)]
        index == SortedSeq(JoinIndex(frames))
    IN [kind |-> "DataFrame",
        cols |-> Flat[Len(frames)].cols,
        src |-> Flat[Len(frames)].src,
        naive |-> FALSE,
        rows |-> [k \in DOMAIN index |->
                    [utc |-> index[k], idx |-> index[k],
                     cells |-> Cells[index[k]]]]]

\* ------------------------------------------------------------- state
VARIABLES
    rot, gaps,      \* the historian's archive (fixed during a run)
    pc,             \* "idle", "loop" (PI_Call), "tag" (PI_Call_Tag), "done"
    file,           \* the script the call runs in
    func,           \* "PI_Call" or "PI_Call_Tag"
    end,            \* the query window is the instants 1..end
    dataType, summaryType,
    query,          \* the PI tags of the csv file (PI_Call_Tag: <<query>>)
    var_names,      \* the variable names (PI_Call_Tag: <<var_name>>)
    points,         \* server.search(query)
    i,              \* the loop's position in points
    data,           \* PI_Call's list of collected frames
    aligned,        \* the table as fetched/joined, before post-processing
    preCoerce,      \* the table handed to pd.to_numeric (PI_Data.py)
    result          \* the call's outcome

vars == << rot, gaps, pc, file, func, end, dataType, summaryType, query,
           var_names, points, i, data, aligned, preCoerce, result >>

\* ---------------------------------------------------------- historian
\* The archive: every tag holds a value at every instant, except that with
\* gaps each tag lacks one instant in three; the values run through
\* RawValueSeq, tag after tag and instant after instant, starting at rot.
Available(tag, t) == ~(gaps /\ (t + TagIndex(tag)) % 3 = 0)
ValueAt(tag, t) ==
    RawValueSeq[((rot + TagIndex(tag) - 1 + 3 * (t - 1))
                    % Len(RawValueSeq)) + 1]
PointRows(tag, e) ==
    LET index == SortedSeq({t \in 1..e : Available(tag, t)})
    IN [k \in DOMAIN index |->
            [utc |-> index[k], idx |-> index[k],
             cells |-> <<ValueAt(tag, index[k])>>]]

\* point.interpolated_values(start, end, interval): a Series named after
\* the point's tag, with a timezone-aware index.
InterpolatedValues(tag, e) ==
    [kind |-> "Series", cols |-> <<tag>>, src |-> <<tag>>, naive |-> FALSE,
     rows |-> PointRows(tag, e)]

\* point.summaries(start, end, interval, SummaryType.X): a DataFrame with
\* one column named X.
Summaries(tag, e, kind) ==
    [kind |-> "DataFrame", cols |-> <<SummaryColumn(kind)>>, src |-> <<tag>>,
     naive |-> FALSE, rows |-> PointRows(tag, e)]

\* server.search(query): the points found, in the order found; a tag may
\* be found once, several times (a wildcard) or not at all, under the name
\* the historian gives it.
SearchResults == UNION {[1..n -> Tags] : n \in 0..MaxPoints}

\* ------------------------------------------------------------ outcomes
Running == [outcome |-> "running", msg |-> "", frame |-> NoFrame]
Returned(frame) == [outcome |-> "returned", msg |-> "", frame |-> frame]
\* print(msg); return
Printed(msg) == [outcome |-> "returned", msg |-> msg, frame |-> NoFrame]
Raised(msg) == [outcome |-> "raised", msg |-> msg, frame |-> NoFrame]

SummaryNotValid == "ERROR: Summary type not valid."
DataTypeNotValid == "ERROR: Data type not valid."

Init ==
    /\ rot \in 0..(Len(RawValueSeq) - 1)
    /\ gaps \in BOOLEAN
    /\ pc = "idle"
    /\ file = "PI_Data" /\ func = "PI_Call"
    /\ end = 0
    /\ dataType = "summary" /\ summaryType = "average"
    /\ query = <<>> /\ var_names = <<>>
    /\ points = <<>>
    /\ i = 1
    /\ data = <<>>
    /\ aligned = NoFrame
    /\ preCoerce = NoFrame
    /\ result = Running

\* ---------------------------------------------- PI_Call (a csv tag list)
\* The call: the csv file is read into query and var_names and the server
\* is searched; the loop over the points follows.
PI_Call(f, e, dt, st, tm, pts) ==
    /\ pc = "idle"
    /\ pc' = "loop"
    /\ file' = f /\ func' = "PI_Call"
    /\ end' = e /\ dataType' = dt /\ summaryType' = st
    /\ query' = tm.query /\ var_names' = tm.var_names
    /\ points' = pts
    /\ i' = 1
    /\ data' = <<>>
    /\ UNCHANGED << rot, gaps, aligned, preCoerce, result >>

\* The frame the loop body appends for a point in summary mode: PI_Data.py
\* renames the column 'AVERAGE', PI-Data-Extraction.py sets the columns.
CollectedFrame(f, tag, e, st) ==
    IF f = "PI_Data"
    THEN RenameColumns(Summaries(tag, e, st), "AVERAGE", tag)
    ELSE SetColumns(Summaries(tag, e, st), <<tag>>)

\* What one pass of the loop body leaves in data: in sampled mode tmp is
\* fetched and nothing is appended (the append is in the summary branch).
LoopData(f, d, tag, e, dt, st) ==
    IF dt = "sampled" THEN d
    ELSE Append(d, CollectedFrame(f, tag, e, st))

\* One pass of `for point in points`.
PI_Call_Loop ==
    /\ pc = "loop"
    /\ func = "PI_Call"
    /\ i <= Len(points)
    /\ IF dataType = "sampled"
          \/ (dataType = "summary" /\ summaryType \in SupportedSummaryTypes)
       THEN /\ data' = LoopData(file, data, points[i], end, dataType,
                                summaryType)
            /\ i' = i + 1
            /\ UNCHANGED << pc, result >>
       ELSE /\ result' = IF dataType = "summary"
                         THEN Printed(SummaryNotValid)
                         ELSE Printed(DataTypeNotValid)
            /\ pc' = "done"
            /\ UNCHANGED << data, i >>
    /\ UNCHANGED << rot, gaps, file, func, end, dataType, summaryType, query,
                    var_names, points, aligned, preCoerce >>

\* data.columns = names raises ValueError unless there is one name per column.
AssignColumns(frame, names) ==
    IF Len(names) = Len(frame.cols) THEN Returned(SetColumns(frame, names))
    ELSE Raised("ValueError: Length mismatch")

\* PI_Data.py, after pd.concat: lines 150-159.  In sampled mode the second
\* tz_convert meets the index the first one made naive.
PI_Data_Call_Post(joined, dt, names) ==
    LET d1 == TzConvertLocalize(joined)
        d2 == ReplaceSentinel(ToNumeric(d1))
    IN IF dt = "sampled" /\ TzNaive(ToDataFrame(d1))
       THEN [result |-> Raised("TypeError: tz-naive index"),
             preCoerce |-> NoFrame]
       ELSE [result |-> AssignColumns(d2, names), preCoerce |-> d1]

\* PI-Data-Extraction.py, after pd.concat: lines 108-109 (the rest is
\* commented out).
PI_Data_Extraction_Call_Post(joined, names) ==
    [result |-> AssignColumns(TzConvertLocalize(joined), names),
     preCoerce |-> NoFrame]

\* After the loop: pd.concat (ValueError on an empty list), then the
\* script's post-processing, then return data.
PI_Call_Assemble ==
    /\ pc = "loop"
    /\ func = "PI_Call"
    /\ i > Len(points)
    /\ pc' = "done"
    /\ IF data = <<>>
       THEN /\ result' = Raised("ValueError: No objects to concatenate")
            /\ UNCHANGED << aligned, preCoerce >>
       ELSE LET post == IF file = "PI_Data"
                        THEN PI_Data_Call_Post(Concat(data), dataType,
                                               var_names)
                        ELSE PI_Data_Extraction_Call_Post(Concat(data),
                                                          var_names)
            IN /\ aligned' = Concat(data)
               /\ preCoerce' = post.preCoerce
               /\ result' = post.result
    /\ UNCHANGED << rot, gaps, file, func, end, dataType, summaryType, query,
                    var_names, points, i, data >>

\* ------------------------------------------------ PI_Call_Tag (one tag)
\* The call: the server is searched for the one tag.
PI_Call_Tag(f, e, q, vn, dt, st, pts) ==
    /\ pc = "idle"
    /\ pc' = "tag"
    /\ file' = f /\ func' = "PI_Call_Tag"
    /\ end' = e /\ dataType' = dt /\ summaryType' = st
    /\ query' = <<q>> /\ var_names' = <<vn>>
    /\ points' = pts
    /\ UNCHANGED << rot, gaps, i, data, aligned, preCoerce, result >>

\* The sampled steps with the numeric coercion run before the substitution.
PI_Data_Tag_Sampled_CoerceFirst(series, q, vn) ==
    DropTail(RenameColumns(ReplaceStates(ToNumeric(TzConvertLocalize(
        ToDataFrame(series)))), q, vn))

\* PI_Data.py lines 193-200 in sampled mode, up to the trim.
PI_Data_Tag_Sampled(series, q, vn) ==
    DropTail(RenameColumns(ReplaceStates(TzConvertLocalize(
        ToDataFrame(series))), q, vn))

\* PI_Data.py lines 188-189 in summary mode.
PI_Data_Tag_Summary(frame, vn) ==
    TzConvertLocalize(RenameColumns(frame, "AVERAGE", vn))

\* PI-Data-Extraction.py lines 175-176 in summary mode.
PI_Data_Extraction_Tag_Summary(frame, vn) ==
    TzConvertLocalize(SetColumns(frame, <<vn>>))

\* The body of PI_Call_Tag once the first point is taken.
PI_Call_Tag_Fetched(f, tag, e, q, vn, dt, st) ==
    LET fetched == IF dt = "sampled" THEN InterpolatedValues(tag, e)
                   ELSE Summaries(tag, e, st)
        pre == IF dt = "sampled" THEN PI_Data_Tag_Sampled(fetched, q, vn)
               ELSE PI_Data_Tag_Summary(fetched, vn)
    IN IF f = "PI_Data"
       THEN [aligned |-> fetched, preCoerce |-> pre,
             result |-> Returned(ReplaceSentinel(ToNumeric(pre)))]
       ELSE [aligned |-> fetched, preCoerce |-> NoFrame,
             result |-> Returned(
                 IF dt = "sampled" THEN fetched
                 ELSE PI_Data_Extraction_Tag_Summary(fetched, vn))]

\* server.search(query)[0] raises IndexError when nothing is found.
PI_Call_Tag_Body ==
    /\ pc = "tag"
    /\ pc' = "done"
    /\ IF points = <<>>
       THEN /\ result' = Raised("IndexError: list index out of range")
            /\ UNCHANGED << aligned, preCoerce >>
       ELSE IF dataType = "sampled"
               \/ (dataType = "summary"
                   /\ summaryType \in SupportedSummaryTypes)
       THEN LET body == PI_Call_Tag_Fetched(file, points[1], end, query[1],
                                            var_names[1], dataType,
                                            summaryType)
            IN /\ aligned' = body.aligned
               /\ preCoerce' = body.preCoerce
               /\ result' = body.result
       ELSE /\ result' = IF dataType = "summary"
                         THEN Printed(SummaryNotValid)
                         ELSE Printed(DataTypeNotValid)
            /\ UNCHANGED << aligned, preCoerce >>
    /\ UNCHANGED << rot, gaps, file, func, end, dataType, summaryType, query,
                    var_names, points, i, data >>

\* ------------------------------------------------------ specification
\* A caller calls one of the two functions of one of the two scripts.
Call_PI_Call ==
    /\ pc = "idle"
    /\ \E f \in Files, e \in 0..MaxT, m \in Modes, tm \in TagMaps,
          pts \in SearchResults :
            PI_Call(f, e, m[1], m[2], tm, pts)

Call_PI_Call_Tag ==
    /\ pc = "idle"
    /\ \E f \in Files, e \in 0..MaxT, q \in {"T1", "T2"}, m \in Modes,
          pts \in {s \in SearchResults : Len(s) <= 1} :
            PI_Call_Tag(f, e, q, "V1", m[1], m[2], pts)

Next ==
    \/ Call_PI_Call
    \/ PI_Call_Loop
    \/ PI_Call_Assemble
    \/ Call_PI_Call_Tag
    \/ PI_Call_Tag_Body

Spec == Init /\ [][Next]_vars

\* ------------------------------------------------------------- claims
Done == pc = "done"
\* The call returned a pandas object (not None, and no exception).
ReturnedFrame == Done /\ result.outcome = "returned" /\ result.frame.kind # "None"
Utcs(frame) == [k \in DOMAIN frame.rows |-> frame.rows[k].utc]
AllCells(frame) ==
    {frame.rows[k].cells[j] : k \in DOMAIN frame.rows, j \in DOMAIN frame.cols}
HasDuplicates(s) == \E a, b \in DOMAIN s : a # b /\ s[a] = s[b]

\* C1: every successful call, of PI_Call or PI_Call_Tag, in either mode and
\* for every supported summary kind, returns a table whose columns are
\* exactly the caller's variable names, in tag-list order (PI_Call_Tag: the
\* one column is named var_name).
C1_ColumnsAreVarNames ==
    ReturnedFrame =>
        /\ result.frame.kind = "DataFrame"
        /\ result.frame.cols = var_names

\* C2: in the table PI_Call returns there is one column per entry of the tag
\* list, and the column at the place of variable name v is filled from the
\* series of the tag mapped to v, whatever order and number of points the
\* search returned.
C2_ColumnFromMappedTag ==
    (ReturnedFrame /\ func = "PI_Call") =>
        /\ Len(result.frame.cols) = Len(query)
        /\ \A j \in DOMAIN result.frame.cols :
            /\ result.frame.cols[j] = var_names[j]
            /\ result.frame.src[j] = query[j]

\* C3: when a fetched series carries a tag that has no entry in the tag
\* list, or the list gives two tags the same variable name, PI_Call ends in
\* an error (the MappingError outcome) and returns no table.
C3_UnmappedTagIsMappingError ==
    (Done /\ func = "PI_Call" /\ data # <<>>
        /\ (\/ \E k \in DOMAIN data : data[k].src[1] \notin Range(query)
            \/ HasDuplicates(var_names))) =>
        (result.outcome = "raised" /\ result.frame.kind = "None")

\* C4: a call whose dataType is neither summary nor sampled, or whose
\* summaryType is not one of the seven supported kinds, ends in the
\* invalid-mode outcome (the error is reported and no table is returned),
\* whatever the search returned and whatever the other parameter is.
C4_InvalidModeIsError ==
    (Done /\ (dataType \notin {"summary", "sampled"}
              \/ summaryType \notin SupportedSummaryTypes)) =>
        (result = Printed(DataTypeNotValid) \/ result = Printed(SummaryNotValid))

\* C5: the rows of the table pd.concat builds in PI_Call are the instants of
\* all collected series together (outer join), one row per instant, in
\* chronological order; a cell holds its series' value at the row's instant,
\* and the missing-value marker where the series has no such instant.
C5_OuterJoin ==
    (func = "PI_Call" /\ aligned.kind # "None") =>
        /\ Len(aligned.cols) = Len(data)
        /\ Range(Utcs(aligned)) = UNION {Instants(data[n]) : n \in DOMAIN data}
        /\ \A k \in DOMAIN aligned.rows :
            /\ k > 1 => aligned.rows[k - 1].utc < aligned.rows[k].utc
            /\ \A n \in DOMAIN data :
                aligned.rows[k].cells[n] =
                    IF aligned.rows[k].utc \in Instants(data[n])
                    THEN RowAt(data[n], aligned.rows[k].utc).cells[1]
                    ELSE NaN

\* C5 witness: two series were joined, and some instant is in the first and
\* not in the second, and another in the second and not in the first.
C5_Witness ==
    /\ func = "PI_Call" /\ aligned.kind # "None" /\ Len(data) = 2
    /\ Instants(data[1]) \ Instants(data[2]) # {}
    /\ Instants(data[2]) \ Instants(data[1]) # {}
    /\ Len(aligned.rows) = MaxT

\* C6: in PI_Data.py the sampled-mode output holds all rows of the fetched
\* table but the chronologically last (N - 1 of its N rows), and the
\* summary-mode output holds all N rows.
C6_TrimOnlySampled ==
    (ReturnedFrame /\ file = "PI_Data" /\ aligned.kind # "None") =>
        Utcs(result.frame) =
            IF dataType = "sampled"
            THEN SubSeq(Utcs(aligned), 1, Len(aligned.rows) - 1)
            ELSE Utcs(aligned)

\* The raw value behind a cell of the returned table.
RawCell(r, j) == CellsAt(aligned, r.utc)[j]

\* C7: in PI_Data.py, in sampled mode a returned cell whose raw value is
\* RUNNING is 1 and one whose raw value is STOPPED or FAIL is 0; in summary
\* mode the same tokens end as the missing-value marker; a token in another
\* case is not substituted.
C7_CategoricalSubstitution ==
    (ReturnedFrame /\ file = "PI_Data") =>
        \A k \in DOMAIN result.frame.rows : \A j \in DOMAIN result.frame.cols :
            LET raw == RawCell(result.frame.rows[k], j)
                cell == result.frame.rows[k].cells[j]
            IN /\ raw = Str("RUNNING") =>
                    cell = IF dataType = "sampled" THEN Num(1) ELSE NaN
               /\ raw \in {Str("STOPPED"), Str("FAIL")} =>
                    cell = IF dataType = "sampled" THEN Num(0) ELSE NaN
               /\ raw = Str("running") => cell = NaN

\* C7 witness: a sampled-mode table is returned that holds a cell read as
\* FAIL.
C7_Witness ==
    /\ ReturnedFrame /\ file = "PI_Data" /\ dataType = "sampled"
    /\ \E k \in DOMAIN result.frame.rows :
        /\ RawCell(result.frame.rows[k], 1) = Str("FAIL")
        /\ result.frame.rows[k].cells[1] = Num(0)

\* C7, summary mode: a table is returned that holds a cell read as RUNNING.
C7_SummaryCase ==
    /\ ReturnedFrame /\ file = "PI_Data" /\ dataType = "summary"
    /\ \E k \in DOMAIN result.frame.rows :
        RawCell(result.frame.rows[k], 1) = Str("RUNNING")

C9_DocumentedSummaryTypesAccepted ==
    (Done /\ dataType = "summary" /\ summaryType \in DocumentedSummaryTypes) =>
        result # Printed(SummaryNotValid)

\* C10: when PI_Call's loop over the points ends without an error, in either
\* mode, data holds one series per point, in search order.
C10_OneSeriesPerPoint ==
    (pc = "loop" /\ func = "PI_Call" /\ i > Len(points)) =>
        /\ Len(data) = Len(points)
        /\ \A k \in DOMAIN data : data[k].src = <<points[k]>>

\* The steps of PI_Data.py in the order the specification fixes: time zone,
\* rename, categorical substitution (sampled), sentinel scrub, numeric
\* coercion, trailing-row trim (sampled).
SpecOrderSampled(fetched, q, vn) ==
    DropTail(ToNumeric(ReplaceSentinel(ReplaceStates(RenameColumns(
        TzConvertLocalize(ToDataFrame(fetched)), q, vn)))))
SpecOrderSummary(renamed) ==
    ToNumeric(ReplaceSentinel(TzConvertLocalize(renamed)))

\* C11: the table PI_Data.py returns, its steps run in the code's order
\* (sampled: substitution, trim, coercion, scrub; summary: coercion, scrub),
\* is the table the same steps give in the specification's order (sampled:
\* substitution, scrub, coercion, trim; summary: scrub, coercion), for every
\* fetched table.
C11_OrderEquivalence ==
    (ReturnedFrame /\ file = "PI_Data") =>
        result.frame =
            IF dataType = "sampled"
            THEN SpecOrderSampled(aligned, query[1], var_names[1])
            ELSE IF func = "PI_Call_Tag"
            THEN SpecOrderSummary(RenameColumns(aligned, "AVERAGE",
                                                var_names[1]))
            ELSE SpecOrderSummary(SetColumns(aligned, var_names))

\* C11 witness: a sampled-mode table is returned with a row left after the
\* trim, fetched from a series that held a state token and the sentinel.
C11_Witness ==
    /\ ReturnedFrame /\ file = "PI_Data" /\ dataType = "sampled"
    /\ result.frame.rows # <<>>
    /\ Str(Sentinel) \in AllCells(aligned)
    /\ AllCells(aligned) \cap {Str("RUNNING"), Str("STOPPED"), Str("FAIL")} # {}

\* C11, summary mode: a joined table holding the sentinel and a numeric
\* string is returned.
C11_SummaryCase ==
    /\ ReturnedFrame /\ file = "PI_Data" /\ dataType = "summary"
    /\ func = "PI_Call"
    /\ Str(Sentinel) \in AllCells(aligned)
    /\ Str("7") \in AllCells(aligned)

====
